---- MODULE Spec2Model ----
(***************************************************************************)
(* Bridge router of the Telegram <-> WebSocket bridge.                     *)
(*                                                                         *)
(*   Session Store        app/session_manager.py  SessionManager           *)
(*   Connection Registry  app/websocket_server.py WebSocketManager         *)
(*   Reply-Thread Map     app/telegram_bot.py     TelegramBot.message_map  *)
(*                                                                         *)
(* Everything runs on one asyncio event loop: code between two awaits is   *)
(* atomic, and an await is a point where another handler may run.  The     *)
(* visitor handlers run as one task per websocket; the admin handlers run  *)
(* one update at a time (python-telegram-bot processes updates             *)
(* sequentially unless concurrent_updates is set, and it is not).          *)
(*                                                                         *)
(* Encodings: a session id is a number of SessionIds, the reserved string  *)
(* "broadcast" is BROADCAST, Python's None is NoSession; a websocket is a  *)
(* number of Handles; a Telegram message id is a number of MsgIds; time is *)
(* a natural number and SESSION_TIMEOUT is scaled to that unit.            *)
(***************************************************************************)
EXTENDS Integers, Sequences, FiniteSets, TLC

\* ---- bounds ----
NumSessions == 2
MaxHandles == 3
MaxMsgId == 3
MaxTime == 2
MaxSweepFails == 2

\* ---- program constants ----
SESSION_TIMEOUT == 1
MAX_SESSIONS == 1
BROADCAST == 0
NoSession == -1

SessionIds == 1..NumSessions
Handles == 1..MaxHandles
MsgIds == 1..MaxMsgId
GROUP == "group"
Chats == {"group", "other"}
UpdateKinds == {"broadcast_cmd", "text", "voice", "photo", "document", "other"}
MediaKinds == {"voice", "photo", "document"}
SendOutcomes == {"ok", "error"}

VARIABLES
  sessions,      \* SessionManager.sessions: session id -> Session
  daily_stats,   \* SessionManager.daily_stats: the counters the code writes
  connections,   \* WebSocketManager.connections: the dict's entry array
  wsOpen,        \* per websocket: the transport is open
  wsSess,        \* per websocket: session_id of the _handle_client that serves it
  wsPc,          \* per websocket: position of its _handle_client task
  message_map,   \* TelegramBot.message_map: telegram message id -> session id
  now,           \* datetime.now()
  nextMsgId,     \* next message id of the admin group chat
  cur,           \* the admin update being handled, or the one the last step handled
  bc,            \* the running WebSocketManager.broadcast: its dict iterator
  lastMsg,       \* the inbound visitor message the last step handled, if it did
  sweep,         \* the cleanup_old_sessions task
  VISITORS,      \* websocket_bot.VISITORS: session -> websocket
  wbTask,        \* websocket_bot: per websocket, its ws_handler task
  wbGroup,       \* websocket_bot: the messages of the group chat, by form
  wbLast         \* websocket_bot: what the last handle_admin call did

vars == <<sessions, daily_stats, connections, wsOpen, wsSess, wsPc, message_map, now,
          nextMsgId, cur, bc, lastMsg, sweep, VISITORS, wbTask, wbGroup, wbLast>>

\* The state of the standalone bridge (websocket_bot.py), a program of its
\* own that shares nothing with the router above.
standalone == <<VISITORS, wbTask, wbGroup, wbLast>>

router == <<sessions, daily_stats, connections, wsOpen, wsSess, wsPc, message_map,
            now, nextMsgId, cur, bc, lastMsg, sweep>>

\* ------------------------------------------------------------------------
\* Session Store
\* ------------------------------------------------------------------------
\* A Session whose times start at the epoch, not at the time of the call.
NewSession_AtEpoch(t) ==
  [created_at |-> 0, last_activity |-> 0, message_count |-> 0, is_active |-> TRUE]

NewSession(t) ==
  [created_at |-> t, last_activity |-> t, message_count |-> 0, is_active |-> TRUE]

create_session(sess, s, t) ==
  [x \in (DOMAIN sess) \cup {s} |-> IF x = s THEN NewSession(t) ELSE sess[x]]

\* update_session_activity that makes a record for an id the store lacks.
update_session_activity_Creates(sess, s, t) ==
  IF s \in DOMAIN sess
  THEN [sess EXCEPT ![s].last_activity = t, ![s].is_active = TRUE]
  ELSE [x \in (DOMAIN sess) \cup {s} |->
          IF x = s THEN [created_at |-> t, last_activity |-> t,
                         message_count |-> 0, is_active |-> TRUE]
          ELSE sess[x]]

update_session_activity(sess, s, t) ==
  IF s \in DOMAIN sess
  THEN [sess EXCEPT ![s].last_activity = t, ![s].is_active = TRUE]
  ELSE sess

end_session(sess, s) ==
  IF s \in DOMAIN sess THEN [sess EXCEPT ![s].is_active = FALSE] ELSE sess

\* daily_stats: create_session counts every call, end_session every call for
\* an id of the store ('messages' is written by increment_message_count
\* only, which nothing calls).
NoStats == [sessions_created |-> 0, sessions_ended |-> 0]

create_session_stats(stats) == [stats EXCEPT !.sessions_created = @ + 1]

end_session_stats(stats, sess, s) ==
  IF s \in DOMAIN sess THEN [stats EXCEPT !.sessions_ended = @ + 1] ELSE stats

\* Expired with the comparison off by one.
Expired_AtTimeout(rec, t) == t - rec.last_activity >= SESSION_TIMEOUT

Expired(rec, t) == t - rec.last_activity > SESSION_TIMEOUT

\* validate_session that counts a successful validation as activity.
validate_session_Touches(sess, s, t) ==
  IF s \notin DOMAIN sess THEN [sess |-> sess, ok |-> FALSE]
  ELSE IF Expired(sess[s], t)
  THEN [sess |-> [sess EXCEPT ![s].is_active = FALSE], ok |-> FALSE]
  ELSE [sess |-> [sess EXCEPT ![s].last_activity = t], ok |-> sess[s].is_active]

\* validate_session without the look at is_active.
validate_session_IgnoresFlag(sess, s, t) ==
  IF s \notin DOMAIN sess THEN [sess |-> sess, ok |-> FALSE]
  ELSE IF Expired(sess[s], t)
  THEN [sess |-> [sess EXCEPT ![s].is_active = FALSE], ok |-> FALSE]
  ELSE [sess |-> sess, ok |-> TRUE]

\* validate_session: the store after the call and the value returned.
validate_session(sess, s, t) ==
  IF s \notin DOMAIN sess THEN [sess |-> sess, ok |-> FALSE]
  ELSE IF Expired(sess[s], t)
  THEN [sess |-> [sess EXCEPT ![s].is_active = FALSE], ok |-> FALSE]
  ELSE [sess |-> sess, ok |-> sess[s].is_active]

\* get_active_sessions that lists a session without looking at its flag.
get_active_sessions_IgnoresFlag(sess, t) ==
  [sess |-> [x \in DOMAIN sess |->
               IF Expired(sess[x], t) THEN [sess[x] EXCEPT !.is_active = FALSE]
               ELSE sess[x]],
   active |-> {x \in DOMAIN sess : ~Expired(sess[x], t)}]

\* get_active_sessions: the store after the call and the ids of the list
\* returned.
get_active_sessions(sess, t) ==
  [sess |-> [x \in DOMAIN sess |->
               IF Expired(sess[x], t) THEN [sess[x] EXCEPT !.is_active = FALSE]
               ELSE sess[x]],
   active |-> {x \in DOMAIN sess : ~Expired(sess[x], t) /\ sess[x].is_active}]

\* _perform_cleanup that is interrupted after its first removal.
perform_cleanup_OneRemoval(sess, t) ==
  LET to_remove == {s \in DOMAIN sess : ~sess[s].is_active \/ Expired(sess[s], t)}
      first == IF to_remove = {} THEN {}
               ELSE {CHOOSE s \in to_remove : \A x \in to_remove : s <= x}
  IN  [x \in (DOMAIN sess) \ first |-> sess[x]]

\* _perform_cleanup that removes the timed-out sessions only.
perform_cleanup_ExpiredOnly(sess, t) ==
  LET to_remove == {s \in DOMAIN sess : Expired(sess[s], t)}
  IN  [x \in (DOMAIN sess) \ to_remove |-> sess[x]]

perform_cleanup(sess, t) ==
  LET to_remove == {s \in DOMAIN sess : ~sess[s].is_active \/ Expired(sess[s], t)}
  IN  [x \in (DOMAIN sess) \ to_remove |-> sess[x]]

\* ------------------------------------------------------------------------
\* Connection Registry: a Python dict, kept as its array of entries in
\* insertion order; a popped entry leaves a dummy slot behind, an assignment
\* to an existing key keeps its slot, a new key is appended.
\* ------------------------------------------------------------------------
Dummy == [sid |-> NoSession, ws |-> 0]

InConns(conns, s) == \E i \in 1..Len(conns) : conns[i].sid = s

ConnIndex(conns, s) == CHOOSE i \in 1..Len(conns) : conns[i].sid = s

ConnGet(conns, s) == conns[ConnIndex(conns, s)].ws

ConnSet(conns, s, h) ==
  IF InConns(conns, s)
  THEN [conns EXCEPT ![ConnIndex(conns, s)].ws = h]
  ELSE Append(conns, [sid |-> s, ws |-> h])

ConnPop(conns, s) == [conns EXCEPT ![ConnIndex(conns, s)] = Dummy]

ConnKeys(conns) == {conns[i].sid : i \in 1..Len(conns)} \ {NoSession}

ConnLen(conns) == Cardinality(ConnKeys(conns))

\* The registry, the session store and the sockets are changed together by
\* the send paths; st is the record [conns, sess, stats, open] of them.
cleanup_connection(st, s) ==
  IF InConns(st.conns, s)
  THEN [conns |-> ConnPop(st.conns, s),
        sess  |-> end_session(st.sess, s),
        stats |-> end_session_stats(st.stats, st.sess, s),
        open  |-> [st.open EXCEPT ![ConnGet(st.conns, s)] = FALSE]]
  ELSE st

\* websocket.send: ConnectionClosed on a closed socket; on an open one it
\* succeeds or raises some other exception.
WsSend(open, h, out) == IF open[h] THEN out ELSE "closed"

send_to_client(st, s, out) ==
  IF InConns(st.conns, s)
  THEN LET h == ConnGet(st.conns, s)
           r == WsSend(st.open, h, out)
       IN  IF r = "ok" THEN [st |-> st, ok |-> TRUE, to |-> {h}]
           ELSE IF r = "closed"
                THEN [st |-> cleanup_connection(st, s), ok |-> FALSE, to |-> {}]
                ELSE [st |-> st, ok |-> FALSE, to |-> {}]
  ELSE [st |-> st, ok |-> FALSE, to |-> {}]

RECURSIVE CleanupAll(_, _)
CleanupAll(st, ids) ==
  IF ids = <<>> THEN st
  ELSE CleanupAll(cleanup_connection(st, Head(ids)), Tail(ids))

\* ------------------------------------------------------------------------
\* Reply-Thread Map
\* ------------------------------------------------------------------------
MapPut(m, k, v) == [x \in (DOMAIN m) \cup {k} |-> IF x = k THEN v ELSE m[x]]

MapGet(m, k, default) == IF k \in DOMAIN m THEN m[k] ELSE default

\* ------------------------------------------------------------------------
\* Initial state
\* ------------------------------------------------------------------------
\* What the handling of an admin update did, as seen from outside:
\*   route   how the message went out: "targeted", "broadcast" or "none"
\*   start   the ids registered when its broadcast started
\*   failed  the ids whose send raised
\*   got     the websockets the message was delivered to
\*   notice  the "Cannot identify which visitor" notice was sent to the admin
\*   report  the count of _broadcast_command's "Broadcast sent to" reply
\*   dup     message_map was assigned under a key it already had
\*   hit     what message_map held under the id a group update replied to,
\*           when its handler got as far as sending (NoSession: otherwise)
\*   exclude the exclude_session of its broadcast (NoSession: None)
\*   sends   the number of websocket.send calls of its broadcast
NoEvent ==
  [route |-> "none", start |-> {}, failed |-> {}, got |-> {}, notice |-> FALSE,
   report |-> -1, dup |-> FALSE, hit |-> NoSession, exclude |-> NoSession,
   sends |-> 0, status |-> "idle"]

NoBroadcast == [active |-> FALSE, pos |-> 0, used |-> 0, len |-> 0,
                disconnected |-> <<>>, then |-> "none", exclude |-> NoSession]

\* What the handling of a visitor message did:
\*   sid       the session id of the websocket it arrived on
\*   stale     that websocket had been superseded when the message arrived
\*   accepted  the message was passed to send_to_telegram
\*   touched   the session's last_activity was set
\*   rest      it came by POST /message, not over a websocket
\*   answer    what the visitor was sent back: "error" (a message of type
\*             ERROR, or the 404 of POST /message), "system" (the upload
\*             confirmation), "sent" (the 200 of POST /message) or "none"
\*   failed    it was handed to send_to_telegram_group and the send raised
NoMsg == [sid |-> NoSession, stale |-> FALSE, accepted |-> FALSE,
          touched |-> FALSE, rest |-> FALSE, answer |-> "none", failed |-> FALSE]

\* websocket_bot: a ws_handler task that has not been started.
NoTask == [pc |-> "unused", session |-> NoSession]

\* websocket_bot: a message of the group chat as handle_admin sees it when it
\* is replied to: the session of its "Visitor <session>" tag (NoSession: it
\* has none) and whether the tag is in its text or in its caption.
Untagged == [tag |-> NoSession, where |-> "text"]

NoReply == [tag |-> NoSession, where |-> "none"]

\* websocket_bot: what a handle_admin call did: the websockets it called send
\* on, and whether it raised.
NoAdmin == [reply |-> NoReply, to |-> {}, raised |-> FALSE, handled |-> FALSE]

\* The cleanup_old_sessions task as main.py's lifespan creates it:
\*   pc         "ready"      its next step is a sweep (it has not run yet, or
\*                           it is in asyncio.sleep(CLEANUP_INTERVAL))
\*              "retry"      in asyncio.sleep(60) of the except clause
\*              "cancelled"  ended by CancelledError
\*              "crashed"    ended by another exception
\*   tries      sweeps that have failed since the last one that did not
\*   recovered  a sweep has succeeded right after a failed one
SweepStart == [pc |-> "ready", tries |-> 0, recovered |-> FALSE]

Init ==
  /\ sessions = <<>>
  /\ daily_stats = NoStats
  /\ connections = <<>>
  /\ wsOpen = [h \in Handles |-> FALSE]
  /\ wsSess = [h \in Handles |-> NoSession]
  /\ wsPc = [h \in Handles |-> "unused"]
  /\ message_map = <<>>
  /\ now = 0
  /\ nextMsgId = 1
  /\ cur = NoEvent
  /\ bc = NoBroadcast
  /\ lastMsg = NoMsg
  /\ sweep = SweepStart
  /\ VISITORS = <<>>
  /\ wbTask = [w \in Handles |-> NoTask]
  /\ wbGroup = {Untagged}
  /\ wbLast = NoAdmin

St == [conns |-> connections, sess |-> sessions, stats |-> daily_stats,
       open |-> wsOpen]

\* cur and lastMsg describe what the last step did: a step that handles no
\* admin update keeps cur only while that update's broadcast is still running,
\* and a step that handles no visitor message clears lastMsg.
Settle(c) == IF c.status = "running" THEN c ELSE NoEvent

\* (\E over a singleton: the value is computed once.)
SetSt(st) ==
  \E x \in {st} :
     /\ connections' = x.conns
     /\ sessions' = x.sess
     /\ daily_stats' = x.stats
     /\ wsOpen' = x.open

\* ------------------------------------------------------------------------
\* Visitor side: one _handle_client task per websocket
\* ------------------------------------------------------------------------
\* _handle_client up to its receive loop: register the connection, create the
\* session, send the welcome message.  Websockets are handed out in order.
HandleClient(h, s, out) ==
  /\ wsPc[h] = "unused"
  /\ \A g \in Handles : g < h => wsPc[g] # "unused"
  /\ LET st0 == [conns |-> ConnSet(connections, s, h),
                 sess  |-> create_session(sessions, s, now),
                 stats |-> create_session_stats(daily_stats),
                 open  |-> [wsOpen EXCEPT ![h] = TRUE]]
     IN  SetSt(send_to_client(st0, s, out).st)
  /\ wsSess' = [wsSess EXCEPT ![h] = s]
  /\ wsPc' = [wsPc EXCEPT ![h] = "recv"]
  /\ cur' = Settle(cur)
  /\ lastMsg' = NoMsg
  /\ UNCHANGED <<standalone, sweep, message_map, now, nextMsgId, bc>>

\* A newer websocket has been accepted for the session id that h serves.
Superseded(h) ==
  \E g \in Handles : g > h /\ wsPc[g] # "unused" /\ wsSess[g] = wsSess[h]

MessageKinds == {"text", "badjson", "badtype", "binary", "binary_untyped",
                 "binary_fail"}

\* WebSocketManager.send_to_telegram: logs, sends nothing, returns None.
send_to_telegram(m) == m

\* Accepted with the malformed payloads let through.
Accepted_Any(kind) == TRUE

\* The payload gets as far as update_session_activity and send_to_telegram.
Accepted(kind) == kind \in {"text", "binary", "binary_untyped"}

\* One pass of the receive loop: _process_client_message on the payload that
\* arrived on websocket h.
\*   text         valid JSON with a valid type tag
\*   badjson      json.loads raises JSONDecodeError
\*   badtype      MessageType(...) raises ValueError
\*   binary          bytes, classified and stored by the file handler
\*   binary_untyped  bytes, detect_file_type fails inside and returns 'file'
\*   binary_fail     bytes, save_temp_file raises
ClientMessage(h, kind, out) ==
  /\ wsPc[h] = "recv"
  /\ wsOpen[h]
  /\ LET s == wsSess[h]
         touch == Accepted(kind)
         st1 == IF touch
                THEN [St EXCEPT !.sess = update_session_activity(sessions, s, now)]
                ELSE St
         st2 == IF kind \in {"badjson", "binary", "binary_untyped", "binary_fail"}
                THEN send_to_client(st1, s, out).st
                ELSE st1
     IN  /\ SetSt(st2)
         /\ message_map' = IF touch THEN send_to_telegram(message_map) ELSE message_map
         /\ lastMsg' = [sid |-> s, stale |-> Superseded(h), accepted |-> touch,
                        touched |-> touch /\ s \in DOMAIN sessions,
                        rest |-> FALSE,
                        answer |-> CASE kind \in {"badjson", "binary_fail"} -> "error"
                                     [] kind \in {"binary", "binary_untyped"} -> "system"
                                     [] OTHER -> "none",
                        failed |-> FALSE]
  /\ cur' = Settle(cur)
  /\ UNCHANGED <<standalone, sweep, wsSess, wsPc, now, nextMsgId, bc>>

\* The visitor's transport goes away.
TransportClose(h) ==
  /\ wsPc[h] = "recv"
  /\ wsOpen[h]
  /\ wsOpen' = [wsOpen EXCEPT ![h] = FALSE]
  /\ cur' = Settle(cur)
  /\ lastMsg' = NoMsg
  /\ UNCHANGED <<standalone, sweep, sessions, daily_stats, connections, wsSess, wsPc, message_map,
                 now, nextMsgId, bc>>

\* _handle_client without its finally clause.
HandlerExit_NoCleanup(h) ==
  /\ wsPc[h] = "recv"
  /\ ~wsOpen[h]
  /\ wsPc' = [wsPc EXCEPT ![h] = "done"]
  /\ cur' = Settle(cur)
  /\ lastMsg' = NoMsg
  /\ UNCHANGED <<standalone, sweep, sessions, daily_stats, connections, wsOpen, wsSess,
                 message_map, now, nextMsgId, bc>>

\* The receive loop of a closed websocket ends (ConnectionClosed) and the
\* finally clause runs _cleanup_connection(session_id).
HandlerExit(h) ==
  /\ wsPc[h] = "recv"
  /\ ~wsOpen[h]
  /\ SetSt(cleanup_connection(St, wsSess[h]))
  /\ wsPc' = [wsPc EXCEPT ![h] = "done"]
  /\ cur' = Settle(cur)
  /\ lastMsg' = NoMsg
  /\ UNCHANGED <<standalone, sweep, wsSess, message_map, now, nextMsgId, bc>>

\* _cleanup_connection of the finally clause when connection.websocket.close()
\* suspends: the registry entry is popped and the close is begun; other
\* handlers run before end_session.
HandlerExitPop(h) ==
  /\ wsPc[h] = "recv"
  /\ ~wsOpen[h]
  /\ InConns(connections, wsSess[h])
  /\ connections' = ConnPop(connections, wsSess[h])
  /\ wsOpen' = [wsOpen EXCEPT ![ConnGet(connections, wsSess[h])] = FALSE]
  /\ wsPc' = [wsPc EXCEPT ![h] = "closing"]
  /\ cur' = Settle(cur)
  /\ lastMsg' = NoMsg
  /\ UNCHANGED <<standalone, sweep, sessions, daily_stats, wsSess, message_map, now, nextMsgId,
                 bc>>

\* close() has returned: end_session, and the task of h ends.
HandlerExitEnd(h) ==
  /\ wsPc[h] = "closing"
  /\ sessions' = end_session(sessions, wsSess[h])
  /\ daily_stats' = end_session_stats(daily_stats, sessions, wsSess[h])
  /\ wsPc' = [wsPc EXCEPT ![h] = "done"]
  /\ cur' = Settle(cur)
  /\ lastMsg' = NoMsg
  /\ UNCHANGED <<standalone, sweep, connections, wsOpen, wsSess, message_map, now, nextMsgId,
                 bc>>

\* POST /message (main.py send_message): the REST fallback for a visitor
\* message; the session id is whatever the request carries.
RestMessage(s) ==
  /\ \E r \in {validate_session(sessions, s, now)} :
        /\ sessions' = r.sess
        /\ message_map' = IF r.ok THEN send_to_telegram(message_map) ELSE message_map
        /\ lastMsg' = [sid |-> s, stale |-> FALSE, accepted |-> r.ok,
                       touched |-> FALSE, rest |-> TRUE,
                       answer |-> IF r.ok THEN "sent" ELSE "error",
                       failed |-> FALSE]
  /\ cur' = Settle(cur)
  /\ UNCHANGED <<standalone, sweep, daily_stats, connections, wsOpen, wsSess, wsPc, now, nextMsgId,
                 bc>>

\* GET /sessions (main.py get_active_sessions) and the /sessions command.
GetActiveSessions ==
  /\ sessions' = get_active_sessions(sessions, now).sess
  /\ cur' = Settle(cur)
  /\ lastMsg' = NoMsg
  /\ UNCHANGED <<standalone, sweep, daily_stats, connections, wsOpen, wsSess, wsPc, message_map, now,
                 nextMsgId, bc>>

\* ------------------------------------------------------------------------
\* Session sweep and the clock
\* ------------------------------------------------------------------------
\* One pass of cleanup_old_sessions: _perform_cleanup.  newday: the date has
\* changed since start_time, and the counters are cleared.
PerformCleanup(newday) ==
  /\ sweep.pc \in {"ready", "retry"}
  /\ sessions' = perform_cleanup(sessions, now)
  /\ daily_stats' = IF newday THEN NoStats ELSE daily_stats
  /\ sweep' = [pc |-> "ready", tries |-> 0,
               recovered |-> sweep.recovered \/ sweep.pc = "retry"]
  /\ cur' = Settle(cur)
  /\ lastMsg' = NoMsg
  /\ UNCHANGED <<standalone, connections, wsOpen, wsSess, wsPc, message_map, now,
                 nextMsgId, bc>>

\* cleanup_old_sessions whose except clause lets the exception end the task.
SweepFail_EndsLoop(removed) ==
  /\ sweep.pc \in {"ready", "retry"}
  /\ sweep.tries < MaxSweepFails
  /\ sessions' = IF removed THEN perform_cleanup(sessions, now) ELSE sessions
  /\ sweep' = [sweep EXCEPT !.pc = "crashed", !.tries = @ + 1]
  /\ cur' = Settle(cur)
  /\ lastMsg' = NoMsg
  /\ UNCHANGED <<standalone, daily_stats, connections, wsOpen, wsSess, wsPc, message_map, now,
                 nextMsgId, bc>>

\* One pass of cleanup_old_sessions in which _perform_cleanup raises an
\* Exception: while it selects (nothing is removed yet) or after the removal
\* loop (removed).  The except clause logs and goes to asyncio.sleep(60).
SweepFail(removed) ==
  /\ sweep.pc \in {"ready", "retry"}
  /\ sweep.tries < MaxSweepFails
  /\ sessions' = IF removed THEN perform_cleanup(sessions, now) ELSE sessions
  /\ sweep' = [sweep EXCEPT !.pc = "retry", !.tries = @ + 1]
  /\ cur' = Settle(cur)
  /\ lastMsg' = NoMsg
  /\ UNCHANGED <<standalone, daily_stats, connections, wsOpen, wsSess, wsPc, message_map, now,
                 nextMsgId, bc>>

\* The task is cancelled: CancelledError is raised where it is suspended, in
\* one of the two sleeps (or before its first step), never inside
\* _perform_cleanup, which has no await.
SweepCancel ==
  /\ sweep.pc \in {"ready", "retry"}
  /\ sweep' = [sweep EXCEPT !.pc = "cancelled"]
  /\ cur' = Settle(cur)
  /\ lastMsg' = NoMsg
  /\ UNCHANGED <<standalone, sessions, daily_stats, connections, wsOpen, wsSess, wsPc,
                 message_map, now, nextMsgId, bc>>

Tick ==
  /\ now < MaxTime
  /\ now' = now + 1
  /\ cur' = Settle(cur)
  /\ lastMsg' = NoMsg
  /\ UNCHANGED <<standalone, sweep, sessions, daily_stats, connections, wsOpen, wsSess, wsPc,
                 message_map, nextMsgId, bc>>

\* ------------------------------------------------------------------------
\* Admin side
\* ------------------------------------------------------------------------
\* TelegramBot.send_to_telegram_group(message) with bot.send_message
\* succeeding: the group chat hands out the next message id and the id is
\* stored under message.session_id.
SendToTelegramGroup(s) ==
  /\ nextMsgId <= MaxMsgId
  /\ message_map' = MapPut(message_map, nextMsgId, s)
  /\ nextMsgId' = nextMsgId + 1
  /\ cur' = Settle(cur)
  /\ lastMsg' = NoMsg
  /\ UNCHANGED <<standalone, sweep, sessions, daily_stats, connections, wsOpen, wsSess, wsPc, now,
                 bc>>

\* TelegramBot.send_to_telegram_group(message) with bot.send_message raising
\* (or with no application): the except clause logs and returns None.
SendToTelegramGroupFails(s) ==
  /\ lastMsg' = [NoMsg EXCEPT !.sid = s, !.failed = TRUE]
  /\ cur' = Settle(cur)
  /\ UNCHANGED <<standalone, sweep, sessions, daily_stats, connections, wsOpen, wsSess, wsPc,
                 message_map, now, nextMsgId, bc>>

\* WebSocketManager.broadcast from the point where it is resumed (or
\* started): the dict iterator's next(), then either the send to the entry it
\* yields (the following await is where the broadcast is suspended again), or
\* the end of the loop with the cleanup of the ids collected in disconnected
\* and the rest of the calling handler.
\* The test of the loop body with no id ever skipped.
Excluded_Never(b, e) == FALSE

\* if session_id == exclude_session: continue
Excluded(b, e) == e.sid = b.exclude

RECURSIVE BroadcastResume(_, _, _, _)
BroadcastResume(st, b, c, out) ==
  LET aborted == [st |-> st, b |-> NoBroadcast, c |-> [c EXCEPT !.status = "aborted"]]
      rest == {i \in (b.pos + 1)..Len(st.conns) : st.conns[i] # Dummy}
  IN  IF ConnLen(st.conns) # b.used
      THEN aborted  \* RuntimeError: dictionary changed size during iteration
      ELSE IF rest = {}
      THEN LET st2 == CleanupAll(st, b.disconnected)
           IN  [st |-> st2, b |-> NoBroadcast,
                c |-> [c EXCEPT !.status = "done",
                                !.report = IF b.then = "count"
                                           THEN ConnLen(st2.conns) ELSE -1]]
      ELSE IF b.len = 0
      THEN aborted  \* RuntimeError: dictionary keys changed during iteration
      ELSE LET i == CHOOSE j \in rest : \A k \in rest : j <= k
               e == st.conns[i]
               r == WsSend(st.open, e.ws, out)
           IN  IF Excluded(b, e)
               THEN BroadcastResume(st, [b EXCEPT !.pos = i, !.len = @ - 1], c, out)
               ELSE
               [st |-> st,
                b |-> [b EXCEPT !.pos = i, !.len = @ - 1,
                                !.disconnected =
                                   IF r = "closed" THEN Append(@, e.sid) ELSE @],
                c |-> [c EXCEPT !.failed = IF r # "ok" THEN @ \cup {e.sid} ELSE @,
                                !.got = IF r = "ok" THEN @ \cup {e.ws} ELSE @,
                                !.sends = @ + 1]]

\* WebSocketManager.broadcast(message, exclude_session) from its call to its
\* first suspension.
broadcast(st, c, then, exclude, out) ==
  BroadcastResume(st,
                  [active |-> TRUE, pos |-> 0, used |-> ConnLen(st.conns),
                   len |-> ConnLen(st.conns), disconnected |-> <<>>, then |-> then,
                   exclude |-> exclude],
                  [c EXCEPT !.route = "broadcast", !.start = ConnKeys(st.conns),
                            !.exclude = exclude, !.status = "running"],
                  out)

\* The handlers of the admin bot call broadcast without exclude_session.
StartBroadcast(st, c, then, out) == broadcast(st, c, then, NoSession, out)

Targeted(st, c, sid, out) ==
  LET r == send_to_client(st, sid, out)
  IN  [st |-> r.st, b |-> NoBroadcast,
       c |-> [c EXCEPT !.route = "targeted",
                       !.failed = IF r.ok THEN {} ELSE {sid}, !.got = r.to]]

Untouched(st, c) == [st |-> st, b |-> NoBroadcast, c |-> c]

\* _setup_handlers: all handlers are in one group, so an update goes to the
\* first handler whose filter matches and to no other.
Handler(kind, reply) ==
  IF kind = "broadcast_cmd" THEN "broadcast_command"
  ELSE IF kind = "text" THEN "text_message"
  ELSE IF kind \in MediaKinds THEN "media_message"
  ELSE IF reply # 0 THEN "reply_message"
  ELSE "none"

\* The handler of the update gets as far as its call of broadcast or
\* send_to_client.
Sends(chat, kind, reply, args, dl) ==
  CASE kind = "broadcast_cmd" -> args
    [] kind = "text" -> chat = GROUP
    [] kind \in MediaKinds -> dl
    [] OTHER -> reply # 0

\* _broadcast_command
broadcast_command(st, map, c, args, out) ==
  IF ~args THEN [w |-> Untouched(st, c), map |-> map, rec |-> FALSE]
  ELSE [w |-> StartBroadcast(st, c, "count", out), map |-> map, rec |-> FALSE]

\* _handle_text_message
handle_text_message(st, map, c, chat, m, out) ==
  IF chat # GROUP THEN [w |-> Untouched(st, c), map |-> map, rec |-> FALSE]
  ELSE [w |-> StartBroadcast(st, c, "none", out),
        map |-> MapPut(map, m, BROADCAST), rec |-> TRUE]

\* _handle_reply_message with the pseudo-session sent like any other id.
handle_reply_message_NoBroadcast(st, map, c, reply, out) ==
  LET session_id == MapGet(map, reply, NoSession)
  IN  IF session_id = NoSession
      THEN [w |-> Untouched(st, [c EXCEPT !.notice = TRUE]), map |-> map,
            rec |-> FALSE]
      ELSE [w |-> Targeted(st, c, session_id, out), map |-> map, rec |-> FALSE]

\* _handle_reply_message
handle_reply_message(st, map, c, reply, out) ==
  LET session_id == MapGet(map, reply, NoSession)
  IN  IF session_id = NoSession
      THEN [w |-> Untouched(st, [c EXCEPT !.notice = TRUE]), map |-> map,
            rec |-> FALSE]
      ELSE IF session_id = BROADCAST
      THEN [w |-> StartBroadcast(st, c, "none", out), map |-> map, rec |-> FALSE]
      ELSE [w |-> Targeted(st, c, session_id, out), map |-> map, rec |-> FALSE]

\* _handle_voice_message, _handle_photo_message, _handle_document_message:
\* the three differ only in the content of the message they build.
handle_media_message(st, map, c, m, reply, dl, out) ==
  LET session_id == IF reply # 0 THEN MapGet(map, reply, BROADCAST)
                    ELSE BROADCAST
  IN  IF ~dl  \* the download raises
      THEN [w |-> Untouched(st, c), map |-> map, rec |-> FALSE]
      ELSE IF session_id = BROADCAST
      THEN [w |-> StartBroadcast(st, c, "none", out),
            map |-> MapPut(map, m, session_id), rec |-> TRUE]
      ELSE [w |-> Targeted(st, c, session_id, out),
            map |-> MapPut(map, m, session_id), rec |-> TRUE]

\* One update from Telegram: a message with id m in chat `chat`, of kind
\* `kind`, replying to message `reply` of the same chat (0: not a reply).
\* Ids of the admin group are handed out in order; another chat has its own
\* ids, which may coincide with ids of the group.
\* What no handler reads is fixed: args (the command has arguments) is read
\* for /broadcast only, and the reply of a command by nobody; dl (the download
\* succeeds) is read for media only; the id of a message of another chat is
\* read by the media handlers only; out (the outcome of a send to an open
\* websocket) is read only where a send can be made.
AdminUpdate(chat, kind, m, reply, args, dl, out) ==
  /\ ~bc.active
  /\ m \in MsgIds
  /\ chat = GROUP => m = nextMsgId /\ reply < m
  /\ kind # "broadcast_cmd" => args
  /\ kind \notin MediaKinds => dl
  /\ kind = "broadcast_cmd" => reply = 0
  /\ (chat # GROUP /\ kind \notin MediaKinds) => m = 1
  /\ ~Sends(chat, kind, reply, args, dl) => out = "ok"
  /\ LET hd == Handler(kind, reply)
         c0 == [NoEvent EXCEPT !.status = "done"]
     IN \E r \in {CASE hd = "broadcast_command" ->
                     broadcast_command(St, message_map, c0, args, out)
                [] hd = "text_message" ->
                     handle_text_message(St, message_map, c0, chat, m, out)
                [] hd = "reply_message" ->
                     handle_reply_message(St, message_map, c0, reply, out)
                [] hd = "media_message" ->
                     handle_media_message(St, message_map, c0, m, reply, dl, out)
                [] OTHER -> [w |-> Untouched(St, c0), map |-> message_map,
                             rec |-> FALSE]} :
         /\ SetSt(r.w.st)
         /\ bc' = r.w.b
         /\ message_map' = r.map
         /\ cur' = [r.w.c EXCEPT !.dup = r.rec /\ m \in DOMAIN message_map,
                                 !.hit = IF /\ chat = GROUP /\ reply # 0
                                            /\ Sends(chat, kind, reply, args, dl)
                                         THEN MapGet(message_map, reply, NoSession)
                                         ELSE NoSession]
  /\ nextMsgId' = IF chat = GROUP THEN nextMsgId + 1 ELSE nextMsgId
  /\ lastMsg' = NoMsg
  /\ UNCHANGED <<standalone, sweep, wsSess, wsPc, now>>

\* WebSocketManager.broadcast called with an exclude_session (no handler of
\* the bridge does; the parameter is part of the manager's interface).
Broadcast(exclude, out) ==
  /\ ~bc.active
  /\ \E w \in {broadcast(St, [NoEvent EXCEPT !.status = "done"], "none", exclude, out)} :
         /\ SetSt(w.st)
         /\ bc' = w.b
         /\ cur' = w.c
  /\ lastMsg' = NoMsg
  /\ UNCHANGED <<standalone, sweep, wsSess, wsPc, message_map, now, nextMsgId>>

\* The broadcast of the update being handled is resumed after a send.
BroadcastNext(out) ==
  /\ bc.active
  /\ \E w \in {BroadcastResume(St, bc, cur, out)} :
         /\ SetSt(w.st)
         /\ bc' = w.b
         /\ cur' = w.c
  /\ lastMsg' = NoMsg
  /\ UNCHANGED <<standalone, sweep, wsSess, wsPc, message_map, now, nextMsgId>>

\* ------------------------------------------------------------------------
\* The standalone bridge (websocket_bot.py)
\* ------------------------------------------------------------------------
\* ws_handler up to its receive loop: the first frame names the session (none:
\* the websocket is closed); the websocket is stored in VISITORS and
\* "Visitor <session> connected" is sent to the group.
WbConnect(w, s) ==
  /\ wbTask[w].pc = "unused"
  /\ IF s = NoSession
     THEN /\ wbTask' = [wbTask EXCEPT ![w] = [pc |-> "done", session |-> s]]
          /\ UNCHANGED <<VISITORS, wbGroup>>
     ELSE /\ VISITORS' = [x \in (DOMAIN VISITORS) \cup {s} |->
                             IF x = s THEN w ELSE VISITORS[x]]
          /\ wbGroup' = wbGroup \cup {[tag |-> s, where |-> "text"]}
          /\ wbTask' = [wbTask EXCEPT ![w] = [pc |-> "recv", session |-> s]]
  /\ wbLast' = NoAdmin
  /\ UNCHANGED router

WbMessageTypes == {"text", "voice", "file", "other"}

\* One pass of ws_handler's loop: a text goes to the group as a text
\* message that starts with the tag, a voice or file as a media message with
\* the tag as its caption; any other type is ignored.
WbMessage(w, type) ==
  /\ wbTask[w].pc = "recv"
  /\ wbGroup' = wbGroup \cup
        (CASE type = "text" -> {[tag |-> wbTask[w].session, where |-> "text"]}
           [] type \in {"voice", "file"} ->
                {[tag |-> wbTask[w].session, where |-> "caption"]}
           [] OTHER -> {})
  /\ wbLast' = NoAdmin
  /\ UNCHANGED <<router, VISITORS, wbTask>>

\* ws_handler's loop ends (the websocket closes, or a frame raises) and the
\* finally clause deletes VISITORS[session].
WbExit(w) ==
  /\ wbTask[w].pc = "recv"
  /\ VISITORS' = [x \in (DOMAIN VISITORS) \ {wbTask[w].session} |-> VISITORS[x]]
  /\ wbTask' = [wbTask EXCEPT ![w].pc = "done"]
  /\ wbLast' = NoAdmin
  /\ UNCHANGED <<router, wbGroup>>

\* origin = msg.reply_to_message.text if msg.reply_to_message else ...: the
\* conditional expression takes the text of every replied message, and the
\* text of a message that carries a caption is None.
origin(reply) ==
  IF reply = NoReply THEN ""
  ELSE IF reply.where = "caption" THEN "None"
  ELSE IF reply.tag = NoSession THEN "plain" ELSE "Visitor"

WbForms ==
  {NoReply} \cup [tag : SessionIds \cup {NoSession}, where : {"text", "caption"}]

\* handle_admin: an update of chat `chat` that replies to the message of
\* form `reply` of the group (NoReply: it replies to nothing).  Whatever the
\* update carries (text, voice, document, nothing of these) decides the
\* payload only.
handle_admin(chat, reply) ==
  /\ reply \in wbGroup \cup {NoReply}
  /\ chat # GROUP => reply = NoReply
  /\ wbLast' =
       IF chat # GROUP THEN [NoAdmin EXCEPT !.handled = TRUE]
       ELSE IF origin(reply) = "None"
       THEN \* "Visitor" not in None: TypeError
            [reply |-> reply, to |-> {}, raised |-> TRUE, handled |-> TRUE]
       ELSE IF origin(reply) # "Visitor"
       THEN [reply |-> reply, to |-> {}, raised |-> FALSE, handled |-> TRUE]
       ELSE [reply |-> reply,
             to |-> IF reply.tag \in DOMAIN VISITORS THEN {VISITORS[reply.tag]}
                    ELSE {},
             raised |-> FALSE, handled |-> TRUE]
  /\ UNCHANGED <<router, VISITORS, wbTask, wbGroup>>

NextStandalone ==
  \/ \E w \in Handles, s \in SessionIds \cup {NoSession} : WbConnect(w, s)
  \/ \E w \in Handles, type \in WbMessageTypes : WbMessage(w, type)
  \/ \E w \in Handles : WbExit(w)
  \/ \E chat \in Chats, reply \in WbForms : handle_admin(chat, reply)

SpecStandalone == Init /\ [][NextStandalone]_vars

Next ==
  \/ NextStandalone
  \/ \E h \in Handles, s \in SessionIds, out \in SendOutcomes : HandleClient(h, s, out)
  \/ \E h \in Handles, k \in MessageKinds, out \in SendOutcomes : ClientMessage(h, k, out)
  \/ \E h \in Handles : TransportClose(h)
  \/ \E h \in Handles : HandlerExit(h)
  \/ \E s \in SessionIds : SendToTelegramGroup(s)
  \/ \E s \in SessionIds : SendToTelegramGroupFails(s)
  \/ \E chat \in Chats, kind \in UpdateKinds, m \in MsgIds, reply \in {0} \cup MsgIds,
        args \in BOOLEAN, dl \in BOOLEAN, out \in SendOutcomes :
        AdminUpdate(chat, kind, m, reply, args, dl, out)
  \/ \E out \in SendOutcomes : BroadcastNext(out)
  \/ \E s \in SessionIds : RestMessage(s)
  \/ GetActiveSessions
  \/ \E newday \in BOOLEAN : PerformCleanup(newday)
  \/ Tick
  \/ \E h \in Handles : HandlerExitPop(h)
  \/ \E h \in Handles : HandlerExitEnd(h)
  \/ \E removed \in BOOLEAN : SweepFail(removed)
  \/ SweepCancel
  \/ \E exclude \in SessionIds \cup {NoSession}, out \in SendOutcomes :
        Broadcast(exclude, out)

Spec == Init /\ [][Next]_vars

\* The visitor side alone: no admin traffic.
NextVisitor ==
  \/ \E h \in Handles, s \in SessionIds, out \in SendOutcomes : HandleClient(h, s, out)
  \/ \E h \in Handles, k \in MessageKinds, out \in SendOutcomes : ClientMessage(h, k, out)
  \/ \E h \in Handles : TransportClose(h)
  \/ \E h \in Handles : HandlerExit(h)

SpecVisitor == Init /\ [][NextVisitor]_vars

\* The Session Store under visitor traffic, the REST calls, the sweep and
\* the clock, within one day (the counters are not cleared): no admin
\* traffic.
NextSession ==
  \/ \E h \in Handles, s \in SessionIds, out \in SendOutcomes : HandleClient(h, s, out)
  \/ \E h \in Handles, k \in MessageKinds, out \in SendOutcomes : ClientMessage(h, k, out)
  \/ \E h \in Handles : TransportClose(h)
  \/ \E h \in Handles : HandlerExit(h)
  \/ \E s \in SessionIds : RestMessage(s)
  \/ GetActiveSessions
  \/ PerformCleanup(FALSE)
  \/ Tick

SpecSession == Init /\ [][NextSession]_vars

\* The forward path: visitors that connect, their messages, and sends to the
\* admin group that succeed or raise.
NextForward ==
  \/ \E h \in Handles, s \in SessionIds, out \in SendOutcomes : HandleClient(h, s, out)
  \/ \E h \in Handles, k \in MessageKinds, out \in SendOutcomes : ClientMessage(h, k, out)
  \/ \E s \in SessionIds : SendToTelegramGroup(s)
  \/ \E s \in SessionIds : SendToTelegramGroupFails(s)

SpecForward == Init /\ [][NextForward]_vars

\* Connections that come and go, with _cleanup_connection run in one piece or
\* suspended in close().
NextCleanup ==
  \/ \E h \in Handles, s \in SessionIds, out \in SendOutcomes : HandleClient(h, s, out)
  \/ \E h \in Handles, k \in MessageKinds, out \in SendOutcomes : ClientMessage(h, k, out)
  \/ \E h \in Handles : TransportClose(h)
  \/ \E h \in Handles : HandlerExit(h)
  \/ \E h \in Handles : HandlerExitPop(h)
  \/ \E h \in Handles : HandlerExitEnd(h)

SpecCleanup == Init /\ [][NextCleanup]_vars

\* The event loop resumes the task of a closed websocket (its receive loop
\* raises ConnectionClosed), and close() returns.
SpecCleanupFair ==
  /\ SpecCleanup
  /\ \A h \in Handles : WF_vars(HandlerExit(h) \/ HandlerExitPop(h))
  /\ \A h \in Handles : WF_vars(HandlerExitEnd(h))

\* The sweep task among connecting and leaving visitors and the clock.
SweepStep ==
  \/ PerformCleanup(FALSE)
  \/ \E removed \in BOOLEAN : SweepFail(removed)

NextSweep ==
  \/ \E h \in Handles, s \in SessionIds, out \in SendOutcomes : HandleClient(h, s, out)
  \/ \E h \in Handles : TransportClose(h)
  \/ \E h \in Handles : HandlerExit(h)
  \/ Tick
  \/ SweepStep
  \/ SweepCancel

SpecSweep == Init /\ [][NextSweep]_vars

\* The event loop resumes the task when its sleep is over, unless the task is
\* cancelled first.
SpecSweepFair == SpecSweep /\ WF_vars(SweepStep)

\* Reply routing: visitors that connect once each and stay, forwards to the
\* group and admin updates of every kind.
NextReply ==
  \/ \E h \in Handles, s \in SessionIds, out \in SendOutcomes :
        ~InConns(connections, s) /\ HandleClient(h, s, out)
  \/ \E s \in SessionIds : SendToTelegramGroup(s)
  \/ \E chat \in Chats, kind \in UpdateKinds, m \in MsgIds, reply \in {0} \cup MsgIds,
        args \in BOOLEAN, dl \in BOOLEAN, out \in SendOutcomes :
        AdminUpdate(chat, kind, m, reply, args, dl, out)
  \/ \E out \in SendOutcomes : BroadcastNext(out)

SpecReply == Init /\ [][NextReply]_vars

\* Broadcast: visitors that connect and disconnect, and /broadcast commands
\* in the admin group.
NextBroadcast ==
  \/ \E h \in Handles, s \in SessionIds, out \in SendOutcomes : HandleClient(h, s, out)
  \/ \E h \in Handles : TransportClose(h)
  \/ \E h \in Handles : HandlerExit(h)
  \/ \E args \in BOOLEAN, out \in SendOutcomes :
        AdminUpdate(GROUP, "broadcast_cmd", nextMsgId, 0, args, TRUE, out)
  \/ \E out \in SendOutcomes : BroadcastNext(out)

SpecBroadcast == Init /\ [][NextBroadcast]_vars

\* One broadcast at a time with no registry change by others while it runs:
\* visitors connect and their handlers end between broadcasts only;
\* transports may close at any time.
NextBroadcastAlone ==
  \/ \E h \in Handles, s \in SessionIds, out \in SendOutcomes :
        ~bc.active /\ HandleClient(h, s, out)
  \/ \E h \in Handles : TransportClose(h)
  \/ \E h \in Handles : ~bc.active /\ HandlerExit(h)
  \/ \E exclude \in SessionIds \cup {NoSession}, out \in SendOutcomes :
        Broadcast(exclude, out)
  \/ \E out \in SendOutcomes : BroadcastNext(out)

SpecBroadcastAlone == Init /\ [][NextBroadcastAlone]_vars

\* ------------------------------------------------------------------------
\* Claims
\* ------------------------------------------------------------------------
AllUpdates(P(_, _, _, _, _, _, _)) ==
  \A chat \in Chats, kind \in UpdateKinds, m \in MsgIds, reply \in {0} \cup MsgIds,
     args \in BOOLEAN, dl \in BOOLEAN, out \in SendOutcomes :
     P(chat, kind, m, reply, args, dl, out)

\* The ids a handled update attempted a send to.
Tried(c) == c.failed \cup {wsSess[h] : h \in c.got}

\* C1: at every instant at most one open websocket is being served for any
\* one session id (registering a second connection for an id closes the
\* first).
C1_OneOpenHandlePerSession ==
  \A h1, h2 \in Handles :
    (h1 # h2 /\ wsPc[h1] = "recv" /\ wsPc[h2] = "recv" /\ wsOpen[h1] /\ wsOpen[h2])
      => wsSess[h1] # wsSess[h2]

\* C2: a message that arrives on a websocket whose session id has been taken
\* over by a newer connection is dropped: it does not set the session's
\* last_activity and is not passed on towards the admin channel.
C2_StaleMessageDropped ==
  lastMsg.stale => ~lastMsg.touched /\ ~lastMsg.accepted

\* C3: an admin reply in the group to a recorded message id that maps to an
\* ordinary session id, whose visitor is connected and whose send succeeds,
\* goes out by the targeted send: exactly the websocket registered for that
\* session receives it.
C3_Case(chat, kind, m, reply, args, dl, out) ==
  (/\ AdminUpdate(chat, kind, m, reply, args, dl, out)
   /\ chat = GROUP /\ dl /\ out = "ok"
   /\ kind # "broadcast_cmd"
   /\ reply \in DOMAIN message_map
   /\ message_map[reply] \in SessionIds
   /\ InConns(connections, message_map[reply]))
  => (/\ cur'.route = "targeted"
      /\ cur'.got = {ConnGet(connections, message_map[reply])})

C3_ReplyIsTargeted == [][AllUpdates(C3_Case)]_vars

\* C4: every visitor message that was passed on to the admin channel has a
\* Reply-Thread Map entry that resolves to the sending visitor's session.
C4_ForwardRecorded ==
  lastMsg.accepted =>
    \E k \in DOMAIN message_map : message_map[k] = lastMsg.sid

\* C5: an entry of the Reply-Thread Map, once inserted, stays and keeps the
\* session id it was recorded with.
C5_EntriesNeverChange ==
  [][\A k \in DOMAIN message_map :
        k \in DOMAIN message_map' /\ message_map'[k] = message_map[k]]_vars

\* C6: no record is carried out under a message id that is already a key of
\* the Reply-Thread Map (such a record fails with DuplicateKey).
C6_RecordRejectsDuplicate == ~cur.dup

\* C7: an admin reply in the group, of any kind, to a message id that is not
\* in the Reply-Thread Map reaches no visitor and is answered with the
\* clarifying notice.
C7_Case(chat, kind, m, reply, args, dl, out) ==
  (/\ AdminUpdate(chat, kind, m, reply, args, dl, out)
   /\ chat = GROUP /\ dl
   /\ kind # "broadcast_cmd"
   /\ reply # 0
   /\ reply \notin DOMAIN message_map)
  => (/\ cur'.route = "none"
      /\ cur'.got = {}
      /\ cur'.notice)

C7_UnknownReplyNotDelivered == [][AllUpdates(C7_Case)]_vars

\* C8: a /broadcast over N registered ids of which M fail on send reports
\* N - M deliveries and leaves exactly the N - M ids that did not fail in the
\* registry.
C8_BroadcastCompleteness ==
  (cur.status = "done" /\ cur.route = "broadcast" /\ cur.report # -1)
    => (/\ cur.report = Cardinality(cur.start) - Cardinality(cur.failed)
        /\ ConnKeys(connections) = cur.start \ cur.failed)

\* C9: a broadcast that has ended has completed its pass, whatever was
\* registered or removed while it was suspended: it attempted a send to
\* every id that was registered when it started.
C9_BroadcastOverSnapshot ==
  (cur.route = "broadcast" /\ cur.status # "running")
    => (cur.status = "done" /\ cur.start \subseteq Tried(cur))

\* C10: after a targeted send that failed, whatever the failure, the id has
\* no registry entry and its session is not active.
C10_FailedSendCleansUp ==
  (cur.route = "targeted" /\ cur.status = "done")
    => \A s \in cur.failed :
         /\ ~InConns(connections, s)
         /\ s \in DOMAIN sessions => ~sessions[s].is_active

\* C11: a sweep leaves no id that it removed from the Session Store in the
\* Connection Registry.
C11_SweepRemovesFromBoth ==
  [][(\E newday \in BOOLEAN : PerformCleanup(newday))
       => \A s \in (DOMAIN sessions) \ (DOMAIN sessions') :
             ~InConns(connections', s)]_vars

\* C12: every id with a registered connection has a session record in the
\* Session Store.
C12_ConnectionHasSession ==
  \A s \in ConnKeys(connections) : s \in DOMAIN sessions

\* C13: a session record whose is_active is false keeps it false for as long
\* as the record stays in the store; only a new connection for the id, which
\* starts a fresh session, makes the id active again.
C13_EndedStaysEnded ==
  [][\A s \in (DOMAIN sessions) \cap (DOMAIN sessions') :
        (~sessions[s].is_active /\ sessions'[s].is_active)
          => \E h \in Handles, out \in SendOutcomes : HandleClient(h, s, out)]_vars

\* The age of a session record: the time since its last activity.
Age(s) == now - sessions[s].last_activity

\* C14: create_session for an id with an active session fails and leaves the
\* record's created_at, last_activity and message_count as they were; for
\* any other id it inserts a record with created_at = last_activity = now,
\* message_count 0 and is_active true.
C14_CreateRejectsActive ==
  [][\A h \in Handles, s \in SessionIds, out \in SendOutcomes :
        HandleClient(h, s, out) =>
          IF s \in DOMAIN sessions /\ sessions[s].is_active
          THEN /\ sessions'[s].created_at = sessions[s].created_at
               /\ sessions'[s].last_activity = sessions[s].last_activity
               /\ sessions'[s].message_count = sessions[s].message_count
          ELSE sessions'[s] = [created_at |-> now, last_activity |-> now,
                               message_count |-> 0, is_active |-> TRUE]]_vars

\* C15: validate_session(id) returns true exactly when a session for id
\* exists, is active and now - last_activity <= SESSION_TIMEOUT; it sets
\* is_active to false when the timeout has elapsed and changes nothing else
\* of the store.
C15_ValidateSession ==
  [][\A s \in SessionIds :
        RestMessage(s) =>
          /\ lastMsg'.accepted =
                (/\ s \in DOMAIN sessions
                 /\ sessions[s].is_active
                 /\ Age(s) <= SESSION_TIMEOUT)
          /\ DOMAIN sessions' = DOMAIN sessions
          /\ \A x \in DOMAIN sessions :
                /\ sessions'[x].created_at = sessions[x].created_at
                /\ sessions'[x].last_activity = sessions[x].last_activity
                /\ sessions'[x].message_count = sessions[x].message_count
                /\ sessions'[x].is_active =
                      IF x = s /\ Age(s) > SESSION_TIMEOUT THEN FALSE
                      ELSE sessions[x].is_active]_vars

\* A validation has just found a session timed out and made it inactive.
C15_Witness ==
  /\ lastMsg.rest
  /\ ~lastMsg.accepted
  /\ lastMsg.sid \in DOMAIN sessions
  /\ Age(lastMsg.sid) > SESSION_TIMEOUT
  /\ ~sessions[lastMsg.sid].is_active

\* C16: a session whose last activity is exactly SESSION_TIMEOUT in the past
\* is reported inactive by validate_session and removed by the sweep; one
\* whose last activity is SESSION_TIMEOUT - 1 in the past is reported active
\* and kept.
C16_TimeoutLawAtTimeout ==
  [][/\ \A s \in (DOMAIN sessions) \cap SessionIds :
           (RestMessage(s) /\ sessions[s].is_active) =>
              /\ Age(s) = SESSION_TIMEOUT => ~lastMsg'.accepted
              /\ Age(s) = SESSION_TIMEOUT - 1 => lastMsg'.accepted
     /\ (\E newday \in BOOLEAN : PerformCleanup(newday)) =>
           \A s \in DOMAIN sessions :
              sessions[s].is_active =>
                /\ Age(s) = SESSION_TIMEOUT => s \notin DOMAIN sessions'
                /\ Age(s) = SESSION_TIMEOUT - 1 => s \in DOMAIN sessions']_vars

\* C16, amended: the session is reported inactive and removed once its last
\* activity is SESSION_TIMEOUT + 1 in the past; at exactly SESSION_TIMEOUT it
\* is still reported active and kept.
C16_TimeoutLawPastTimeout ==
  [][/\ \A s \in (DOMAIN sessions) \cap SessionIds :
           (RestMessage(s) /\ sessions[s].is_active) =>
              /\ Age(s) = SESSION_TIMEOUT + 1 => ~lastMsg'.accepted
              /\ Age(s) = SESSION_TIMEOUT => lastMsg'.accepted
     /\ (\E newday \in BOOLEAN : PerformCleanup(newday)) =>
           \A s \in DOMAIN sessions :
              sessions[s].is_active =>
                /\ Age(s) = SESSION_TIMEOUT + 1 => s \notin DOMAIN sessions'
                /\ Age(s) = SESSION_TIMEOUT => s \in DOMAIN sessions']_vars

\* A validation has just reported active a session whose last activity is
\* exactly SESSION_TIMEOUT in the past.
C16_Witness ==
  /\ lastMsg.rest
  /\ lastMsg.accepted
  /\ Age(lastMsg.sid) = SESSION_TIMEOUT

\* C17: one sweep removes exactly the sessions that are inactive or past the
\* timeout and leaves every other session as it was.
C17_SweepExact ==
  [][(\E newday \in BOOLEAN : PerformCleanup(newday)) =>
        /\ DOMAIN sessions' =
              {s \in DOMAIN sessions :
                 sessions[s].is_active /\ Age(s) <= SESSION_TIMEOUT}
        /\ \A s \in DOMAIN sessions' : sessions'[s] = sessions[s]]_vars

\* A sweep has removed the session of one websocket that was accepted (only
\* the sweep deletes records) and has kept another session.
C17_Witness ==
  /\ \E h \in Handles : wsPc[h] # "unused" /\ wsSess[h] \notin DOMAIN sessions
  /\ DOMAIN sessions # {}

\* C18: end_session(id) twice leaves the Session Manager as end_session(id)
\* once does, and _cleanup_connection(id) twice leaves registry and Session
\* Manager as once does; both change nothing for an unknown id.
C18_EndAndRemoveIdempotent ==
  \A s \in SessionIds :
    LET e0 == [sess |-> sessions, stats |-> daily_stats]
        e1 == [sess |-> end_session(e0.sess, s),
               stats |-> end_session_stats(e0.stats, e0.sess, s)]
        e2 == [sess |-> end_session(e1.sess, s),
               stats |-> end_session_stats(e1.stats, e1.sess, s)]
        c1 == cleanup_connection(St, s)
        c2 == cleanup_connection(c1, s)
    IN  /\ e2 = e1
        /\ c2 = c1
        /\ s \notin DOMAIN sessions => e1 = e0
        /\ ~InConns(connections, s) => c1 = St

\* C19: a visitor message that is accepted for a session sets the session's
\* last_activity to the current time and adds one to its message_count.
C19_AcceptedMessageCounted ==
  [][(lastMsg'.accepted /\ ~lastMsg'.rest /\ lastMsg'.sid \in DOMAIN sessions) =>
        /\ sessions'[lastMsg'.sid].last_activity = now
        /\ sessions'[lastMsg'.sid].message_count =
              sessions[lastMsg'.sid].message_count + 1]_vars

\* C20: a well-formed visitor message that arrives for a session that fails
\* validation (ended, expired or swept) is not passed on, is answered with
\* an error message, and does not close the visitor's websocket.
C20_InvalidSessionRejected ==
  [][\A h \in Handles, k \in {"text", "binary"}, out \in SendOutcomes :
        (/\ ClientMessage(h, k, out)
         /\ ~(/\ wsSess[h] \in DOMAIN sessions
              /\ sessions[wsSess[h]].is_active
              /\ Age(wsSess[h]) <= SESSION_TIMEOUT))
        => (/\ ~lastMsg'.accepted
            /\ lastMsg'.answer = "error"
            /\ wsOpen'[h])]_vars

\* C21: after an admin reply in the group that resolved to session S, the
\* reply's own message id is in the Reply-Thread Map under S; for replies of
\* every kind.
C21_Case(chat, kind, m, reply, args, dl, out) ==
  (/\ AdminUpdate(chat, kind, m, reply, args, dl, out)
   /\ chat = GROUP /\ dl
   /\ kind # "broadcast_cmd"
   /\ reply \in DOMAIN message_map
   /\ message_map[reply] \in SessionIds)
  => (/\ m \in DOMAIN message_map'
      /\ message_map'[m] = message_map[reply])

C21_ReplyRecorded == [][AllUpdates(C21_Case)]_vars

\* C22: a /broadcast command with a text, sent in the group, starts a
\* broadcast over every registered connection and records the command's
\* message id under the broadcast pseudo-session.
C22_Case(chat, kind, m, reply, args, dl, out) ==
  (/\ AdminUpdate(chat, kind, m, reply, args, dl, out)
   /\ chat = GROUP
   /\ kind = "broadcast_cmd" /\ args)
  => (/\ cur'.route = "broadcast"
      /\ cur'.start = ConnKeys(connections)
      /\ m \in DOMAIN message_map'
      /\ message_map'[m] = BROADCAST)

C22_BroadcastCommandRecorded == [][AllUpdates(C22_Case)]_vars

C25_StoreWithinLimit == Cardinality(DOMAIN sessions) <= MAX_SESSIONS

\* C26: when the send of a visitor message to the admin group fails, the
\* visitor is sent an error message (and nothing is recorded or retried).
C26_FailedForwardReported ==
  lastMsg.failed =>
    /\ lastMsg.answer = "error"
    /\ \A m \in DOMAIN message_map : m < nextMsgId

\* C29: a visitor message whose handling fails (malformed JSON, unknown type
\* tag, a binary payload that cannot be stored) leaves the session of its
\* connection active and in the registry, and its receive loop running.
C29_FailureContained ==
  [][\A h \in Handles, out \in SendOutcomes :
       \A kind \in {"badjson", "badtype", "binary_fail"} :
         ClientMessage(h, kind, out) =>
           /\ wsPc'[h] = "recv" /\ wsOpen'[h]
           /\ InConns(connections, wsSess[h]) => InConns(connections', wsSess[h])
           /\ (wsSess[h] \in DOMAIN sessions /\ sessions[wsSess[h]].is_active)
                => (wsSess[h] \in DOMAIN sessions' /\ sessions'[wsSess[h]].is_active)]_vars

\* C30: a binary payload whose classification or storage fails is still
\* passed on towards the admin group.
C30_BinaryFailureStillForwarded ==
  [][\A h \in Handles, out \in SendOutcomes :
       \A kind \in {"binary_untyped", "binary_fail"} :
         ClientMessage(h, kind, out) => lastMsg'.accepted]_vars

\* C24: whenever a handler is suspended, no session id has its registry
\* entry already removed by that handler while its session is not yet ended.
C24_NoStraddle ==
  \A h \in Handles :
    wsPc[h] = "closing" =>
      ~(/\ ~InConns(connections, wsSess[h])
        /\ wsSess[h] \in DOMAIN sessions
        /\ sessions[wsSess[h]].is_active)

\* C27: the sweep loop is never ended by a failed sweep, only by
\* cancellation; and after a failed sweep the loop makes another attempt
\* unless it is cancelled.
C27_SweepLoopSurvives ==
  /\ [](sweep.pc \in {"ready", "retry", "cancelled"})
  /\ \A n \in 1..MaxSweepFails :
        (sweep.pc = "retry" /\ sweep.tries = n)
          ~> (sweep.pc # "retry" \/ sweep.tries # n)

\* A sweep has succeeded after a failed one, and the loop goes on.
C27_Witness == sweep.recovered /\ sweep.pc = "ready"

\* C28: a sweep is applied in one step: a step that removes a session from
\* the store leaves no ended and no timed-out session in it, and a
\* cancellation changes nothing in the store.
C28_SweepAtomic ==
  [][/\ ~(DOMAIN sessions \subseteq DOMAIN sessions')
        => \A s \in DOMAIN sessions' :
              sessions'[s].is_active /\ ~Expired(sessions'[s], now)
     /\ SweepCancel => sessions' = sessions]_vars

\* Two websockets have served different sessions to their end and one sweep
\* or more has removed both sessions.
C28_Witness ==
  /\ sessions = <<>>
  /\ \E g, h \in Handles :
        /\ wsPc[g] = "done" /\ wsPc[h] = "done"
        /\ wsSess[g] # wsSess[h]

\* C31: update_session_activity(id) on a known id sets last_activity to now
\* and is_active to true and changes nothing else of that session and no
\* other session; on an unknown id it changes nothing and creates nothing.
\* (A well-formed text message does update_session_activity and nothing else
\* to the store.)
C31_TouchFrame ==
  [][\A h \in Handles :
       ClientMessage(h, "text", "ok") =>
         /\ DOMAIN sessions' = DOMAIN sessions
         /\ \A x \in DOMAIN sessions :
               IF x = wsSess[h]
               THEN /\ sessions'[x].last_activity = now
                    /\ sessions'[x].is_active
                    /\ sessions'[x].created_at = sessions[x].created_at
                    /\ sessions'[x].message_count = sessions[x].message_count
               ELSE sessions'[x] = sessions[x]
         /\ daily_stats' = daily_stats]_vars

\* A message has touched a session at a later time than its creation, beside
\* another session of the store.
C31_Witness ==
  /\ lastMsg.touched /\ ~lastMsg.rest
  /\ sessions[lastMsg.sid].last_activity > sessions[lastMsg.sid].created_at
  /\ \E x \in DOMAIN sessions : x # lastMsg.sid

\* validate_session called on every id of the store, one after the other.
RECURSIVE ValidateAll(_, _, _)
ValidateAll(sess, ids, t) ==
  IF ids = {} THEN sess
  ELSE LET x == CHOOSE y \in ids : TRUE
       IN  ValidateAll(validate_session(sess, x, t).sess, ids \ {x}, t)

\* C32: get_active_sessions returns exactly the sessions for which
\* validate_session returns true at the same instant, and leaves the flags as
\* validate_session called on every stored id leaves them.
C32_ListActiveIsValidate ==
  LET g == get_active_sessions(sessions, now)
  IN  /\ g.active = {x \in DOMAIN sessions : validate_session(sessions, x, now).ok}
      /\ g.sess = ValidateAll(sessions, DOMAIN sessions, now)

\* A timed-out session has had its flag flipped lazily (no websocket has
\* ended), in a store that also holds a session that is listed.
C32_Witness ==
  /\ \E x \in DOMAIN sessions : Expired(sessions[x], now) /\ ~sessions[x].is_active
  /\ \E x \in DOMAIN sessions : ~Expired(sessions[x], now) /\ sessions[x].is_active
  /\ \A h \in Handles : wsPc[h] # "done"

\* C33: while a record of a session id stays in the store, its last_activity
\* never decreases, whatever connects, messages, validations and sweeps
\* happen.
C33_LastActivityMonotone ==
  [][\A x \in (DOMAIN sessions) \cap (DOMAIN sessions') :
        sessions'[x].last_activity >= sessions[x].last_activity]_vars

\* A second websocket has connected with the id of a record that was in the
\* store, after the clock had moved.
C33_Witness ==
  \E g, h \in Handles :
    /\ g < h /\ wsPc[h] = "recv" /\ wsSess[g] = wsSess[h]
    /\ wsSess[h] \in DOMAIN sessions
    /\ sessions[wsSess[h]].created_at > 0

\* C34: when the handler of a superseded websocket of session id X ends, the
\* newer websocket of X stays in the registry and open, and the session of X
\* is not ended.
C34_SupersededExitSparesNewer ==
  [][\A h \in Handles :
       (/\ HandlerExit(h)
        /\ Superseded(h)
        /\ InConns(connections, wsSess[h])
        /\ ConnGet(connections, wsSess[h]) # h)
       => (/\ InConns(connections', wsSess[h])
           /\ ConnGet(connections', wsSess[h]) = ConnGet(connections, wsSess[h])
           /\ wsOpen'[ConnGet(connections, wsSess[h])]
                 = wsOpen[ConnGet(connections, wsSess[h])]
           /\ wsSess[h] \in DOMAIN sessions
                 => sessions'[wsSess[h]] = sessions[wsSess[h]])]_vars

\* C37: an admin update of any kind from a chat other than the admin group
\* delivers nothing to a visitor and adds nothing to the Reply-Thread Map.
C37_Case(chat, kind, m, reply, args, dl, out) ==
  (AdminUpdate(chat, kind, m, reply, args, dl, out) /\ chat # GROUP)
  => (/\ cur'.route = "none"
      /\ cur'.got = {}
      /\ message_map' = message_map)

C37_OtherChatIgnored == [][AllUpdates(C37_Case)]_vars

C39_RestValidates ==
  [][\A s \in SessionIds :
       RestMessage(s) =>
         /\ lastMsg'.accepted <=> (/\ s \in DOMAIN sessions
                                   /\ sessions[s].is_active
                                   /\ Age(s) <= SESSION_TIMEOUT)
         /\ lastMsg'.answer = IF lastMsg'.accepted THEN "sent" ELSE "error"
         /\ message_map' = message_map
         /\ DOMAIN sessions' = DOMAIN sessions
         /\ \A x \in DOMAIN sessions :
               /\ sessions'[x].last_activity = sessions[x].last_activity
               /\ sessions'[x].message_count = sessions[x].message_count]_vars

\* POST /message has answered 404 for a session of the store that is ended
\* or timed out.
C39_Witness ==
  /\ lastMsg.rest
  /\ lastMsg.answer = "error"
  /\ lastMsg.sid \in DOMAIN sessions
  /\ ~sessions[lastMsg.sid].is_active

\* C36: in a broadcast during which nobody else changes the registry, every
\* registered id other than exclude_session gets exactly one send attempt,
\* exclude_session gets none, and no registry entry is removed before the
\* last send attempt has settled.
C36_BroadcastOneAttemptEach ==
  /\ [](cur.route = "broadcast" =>
          /\ cur.status # "aborted"
          /\ Tried(cur) \subseteq cur.start \ {cur.exclude}
          /\ cur.sends = Cardinality(Tried(cur))
          /\ cur.status = "done" => Tried(cur) = cur.start \ {cur.exclude})
  /\ [][bc'.active => connections' = connections]_vars

\* A broadcast that excluded a registered id has ended: the send to another
\* id found the websocket closed and the entry of that id has been removed.
C36_Witness ==
  /\ cur.route = "broadcast" /\ cur.status = "done"
  /\ cur.exclude \in cur.start
  /\ cur.sends = 1
  /\ \E s \in cur.failed : ~InConns(connections, s)

\* A websocket that was accepted and whose transport is closed.
Closed(h) == wsPc[h] # "unused" /\ ~wsOpen[h]

C40_StandaloneReplyRouted ==
  [][\A chat \in Chats, reply \in WbForms :
       handle_admin(chat, reply) =>
         wbLast'.to = IF chat = GROUP /\ reply.tag \in DOMAIN VISITORS
                      THEN {VISITORS[reply.tag]}
                      ELSE {}]_vars

====
